---- MODULE Spec2Model ----
(***************************************************************************)
(* Foreign-field arithmetic gadgets of src/src/lib/fetch.ts (lines 387-1051) *)
(* as a state machine: limb codec, addition chain, multiplication core,    *)
(* division / inversion, less-than assertion and the Sum chain builder.    *)
(*                                                                         *)
(* Numbers.  The source works on bigints with limb width l = 88 and the    *)
(* modulus limit 2^259, which lies between 2^(2l) and 2^(3l): a modulus    *)
(* may reach into the high limb but never fills it.  The model keeps every *)
(* formula of the source and runs it at limb width l = 4 with the modulus  *)
(* limit 2^(3l - 2), so that all values stay below 2^31.                   *)
(*                                                                         *)
(* Values.  A Field3 is a tuple <<x0, x1, x2>> of integers.  In symbolic   *)
(* (provable) mode the integers are the honest witness, i.e. what the      *)
(* exists(...) closures of the source compute at proving time; a negative  *)
(* value a closure returns is stored as a native field element, i.e.       *)
(* reduced into [0, P): a negative bigint v becomes P - |v|, which no      *)
(* range check accepts.  The native modulus P lies, as in the source,      *)
(* between 2^(2l) and the modulus limit.                                   *)
(***************************************************************************)
EXTENDS Integers, Sequences, FiniteSets, TLC

VARIABLES
  f,          \* foreign modulus the calls of this run are made with
  a, b,       \* operand values the calls of this run are made with
  log,        \* the constraint log: sequence of rows, append-only
  ret,        \* the last call: operation, operands, outcome, rows it appended
  ncalls,     \* number of calls made so far
  summands,   \* Sum.#summands
  ops,        \* Sum.#ops
  result,     \* Sum.#result (Undefined until finalized)
  ySum,       \* the second operand of assertMul: a Field3 or a Sum
  xySum,      \* the third operand of assertMul: a Field3 or a Sum
  defaultGraphqlEndpoint,   \* the module's default endpoint
  accountCache,             \* key -> cached account, endpoint and timestamp
  now,                      \* Date.now()
  pending,                  \* the GraphQL requests in flight
  accountsToFetch,          \* the accounts marked to be fetched
  fetching                  \* the requests of fetchMissingAccounts in flight

fetchVars == <<defaultGraphqlEndpoint, accountCache, now, pending, accountsToFetch,
               fetching>>
vars == <<f, a, b, log, ret, ncalls, summands, ops, result, ySum, xySum,
          defaultGraphqlEndpoint, accountCache, now, pending, accountsToFetch, fetching>>

-----------------------------------------------------------------------------
(* Bounds of the model *)

MaxF == 7        \* moduli 1..MaxF are explored, plus the boundary moduli
MaxV == 3        \* operand values 0..MaxV are explored, plus boundary values
MaxCalls == 1    \* calls made on one constraint log

-----------------------------------------------------------------------------
(* range-check.js constants and bigint operators *)

l == 4
l2 == 2 * l
l3 == 3 * l
lMask == 2^l - 1
l2Mask == 2^l2 - 1

\* x >> k on bigints: arithmetic shift, rounds towards minus infinity
\* (every value of the model is below 2^31 in magnitude, so a shift by more
\* than 30 bits leaves only the sign)
shr(x, k) == IF k > 30 THEN (IF x < 0 THEN -1 ELSE 0) ELSE x \div (2^k)
\* x << k
shl(x, k) == x * (2^k)
\* x & m for a mask m = 2^k - 1 (two's complement: the result is in 0..m)
band(x, m) == x % (m + 1)

\* x / y on bigints: truncates towards zero
bigdiv(x, y) == IF x >= 0 THEN x \div y ELSE -((-x) \div y)
\* bitSlice(x, start, length) of common.js
bitSlice(x, start, length) == band(shr(x, start), 2^length - 1)

\* 1n << 259n, the modulus limit of multiply / inverse / divide
FBits == l3 - 2
FLimit == 2^FBits

\* the native field modulus (Field.ORDER, below 2^259 and above 2^(2l))
P == 509
\* Field.from(x) of a bigint; also what exists(...) does to each value
toField(x) == x % P

\* mod(x, p) of finite_field.js: the representative in [0, p)
mod(x, p) == x % p

\* undefined, where a Field3 is expected
Undefined == <<>>
\* undefined, where a bigint is expected
NoBigint == -1

\* extended Euclid: <<g, s, t>> with g = gcd(x, y) = s*x + t*y, for x, y >= 0
RECURSIVE egcd(_, _)
egcd(x, y) ==
  IF x = 0 THEN <<y, 0, 1>>
  ELSE LET e == egcd(y % x, x)
       IN <<e[1], e[3] - (y \div x) * e[2], e[2]>>

\* inverse(a, p) of finite_field.js: the inverse of a modulo p in [0, p), or
\* undefined when a mod p is 0 or shares a factor with p
modInverse(x, p) ==
  IF mod(x, p) = 0 THEN NoBigint
  ELSE LET e == egcd(mod(x, p), p)
       IN IF e[1] # 1 THEN NoBigint ELSE mod(e[2], p)

-----------------------------------------------------------------------------
(* Limb codec *)

combine(x) == x[1] + shl(x[2], l) + shl(x[3], l2)

\* split with the high limb taken at the middle limb's shift
split_sameShift(x) ==
  <<band(x, lMask), band(shr(x, l), lMask), band(shr(x, l), lMask)>>

split(x) == <<band(x, lMask), band(shr(x, l), lMask), band(shr(x, l2), lMask)>>

combine2(x) == x[1] + shl(x[2], l)

split2(x) == <<band(x, lMask), band(shr(x, l), lMask)>>

\* Field3.from: Field.from on each limb of split(x); limbs are below the
\* native modulus, so Field.from leaves them as they are
Field3from(x) == split(x)

\* Field3.toBigint
Field3toBigint(x) == combine(x)

-----------------------------------------------------------------------------
(* Constraint rows.  Every row is [gate, cells]; cells holds the honest    *)
(* witness of the row's variables and the row's coefficients.              *)

Row(gate, cells) == [gate |-> gate, cells |-> cells]

\* multiRangeCheck(x): each of the three cells is in [0, 2^l)
multiRangeCheck(x) == Row("MultiRangeCheck", x)
\* Gates.zero(...result)
GatesZero(x) == Row("Zero", x)

\* does the honest witness violate the row?  (range checks and assertions;
\* the arithmetic gates are satisfied by the witness computed for them)
Violated(row) ==
  CASE row.gate = "MultiRangeCheck" ->
         \E i \in 1..Len(row.cells) : row.cells[i] \notin 0..lMask
    [] row.gate = "CompactMultiRangeCheck" ->
         row.cells[1] \notin 0..l2Mask \/ row.cells[2] \notin 0..lMask
    [] row.gate = "AssertEquals" -> row.cells[1] # row.cells[2]
    [] row.gate = "AssertFalse" -> row.cells[1] # 0
    [] row.gate = "AssertOneOf" ->
         \A i \in 2..Len(row.cells) : row.cells[1] # toField(row.cells[i])
    [] OTHER -> FALSE

Satisfied(rows) == \A i \in 1..Len(rows) : ~Violated(rows[i])

-----------------------------------------------------------------------------
(* Outcome of a call *)

\* rows: the rows the call appended to the log; a call that throws keeps the
\* rows it had appended before the failing assertion (nothing is rolled back)
Ok(value, rows) == [status |-> "ok", msg |-> "", value |-> value, rows |-> rows]
Throws(msg, rows) == [status |-> "throws", msg |-> msg, value |-> Undefined, rows |-> rows]

-----------------------------------------------------------------------------
(* Addition chain engine *)

\* singleAdd without the overflow of -1 for a subtraction that goes negative
singleAdd_noUnderflow(x, y, sign, ff) ==
  LET f_ == split(ff)
      r == combine(x) + sign * combine(y)
      o1 == IF sign = 1 /\ r >= ff THEN 1 ELSE 0
      overflow == IF ff = 0 THEN 0 ELSE o1
      r01 == combine2(x) + sign * combine2(y) - overflow * combine2(f_)
      carry == shr(r01, l2)
      r0r1 == split2(band(r01, l2Mask))
      r2 == x[3] + sign * y[3] - overflow * f_[3] + carry
  IN [result |-> <<toField(r0r1[1]), toField(r0r1[2]), toField(r2)>>,
      overflow |-> toField(overflow),
      row |-> Row("ForeignFieldAdd",
                  x \o y \o <<toField(overflow), toField(carry)>> \o f_ \o <<sign>>)]

singleAdd(x, y, sign, ff) ==
  LET f_ == split(ff)
      r == combine(x) + sign * combine(y)
      o1 == IF sign = 1 /\ r >= ff THEN 1 ELSE 0
      o2 == IF sign = -1 /\ r < 0 THEN -1 ELSE o1
      overflow == IF ff = 0 THEN 0 ELSE o2
      r01 == combine2(x) + sign * combine2(y) - overflow * combine2(f_)
      carry == shr(r01, l2)
      r0r1 == split2(band(r01, l2Mask))
      r2 == x[3] + sign * y[3] - overflow * f_[3] + carry
  IN [result |-> <<toField(r0r1[1]), toField(r0r1[2]), toField(r2)>>,
      overflow |-> toField(overflow),
      row |-> Row("ForeignFieldAdd",
                  x \o y \o <<toField(overflow), toField(carry)>> \o f_ \o <<sign>>)]

\* sign.reduce((sum, s, i) => sum + s * xBig[i + 1], xBig[0])
RECURSIVE reduceSum(_, _, _)
reduceSum(xBig, sign, n) ==
  IF n = 0 THEN xBig[1]
  ELSE reduceSum(xBig, sign, n - 1) + sign[n] * xBig[n + 1]

\* the loop of singleAdd calls: [result, rows, overflows] after n steps
RECURSIVE addChain(_, _, _, _)
addChain(x, sign, ff, n) ==
  IF n = 0 THEN [result |-> x[1], rows |-> <<>>, overflows |-> <<>>]
  ELSE LET prev == addChain(x, sign, ff, n - 1)
           step == singleAdd(prev.result, x[n + 1], sign[n], ff)
       IN [result |-> step.result,
           rows |-> Append(prev.rows, step.row),
           overflows |-> Append(prev.overflows, step.overflow)]

\* sum that range-checks the result before the closing zero row
sum_rangeCheckFirst(x, sign, ff, mode) ==
  IF Len(x) # Len(sign) + 1 THEN Throws("inputs and operators match", <<>>)
  ELSE IF mode = "constant"
  THEN Ok(Field3from(mod(reduceSum([i \in 1..Len(x) |-> Field3toBigint(x[i])],
                                   sign, Len(sign)), ff)), <<>>)
  ELSE LET chain == addChain(x, sign, ff, Len(sign))
       IN Ok(chain.result,
             chain.rows \o <<multiRangeCheck(chain.result), GatesZero(chain.result)>>)

\* sum without the constant case: constants go through the ffadd chain
sum_noConstantCase(x, sign, ff, mode) ==
  IF Len(x) # Len(sign) + 1 THEN Throws("inputs and operators match", <<>>)
  ELSE LET chain == addChain(x, sign, ff, Len(sign))
       IN Ok(chain.result,
             chain.rows \o <<GatesZero(chain.result), multiRangeCheck(chain.result)>>)

sum(x, sign, ff, mode) ==
  IF Len(x) # Len(sign) + 1 THEN Throws("inputs and operators match", <<>>)
  ELSE IF mode = "constant"
  THEN Ok(Field3from(mod(reduceSum([i \in 1..Len(x) |-> Field3toBigint(x[i])],
                                   sign, Len(sign)), ff)), <<>>)
  ELSE LET chain == addChain(x, sign, ff, Len(sign))
       IN Ok(chain.result,
             chain.rows \o <<GatesZero(chain.result), multiRangeCheck(chain.result)>>)

ForeignFieldAdd(x, y, ff, mode) == sum(<<x, y>>, <<1>>, ff, mode)
ForeignFieldSub(x, y, ff, mode) == sum(<<x, y>>, <<-1>>, ff, mode)
ForeignFieldNegate(x, ff, mode) == sum(<<Field3from(0), x>>, <<-1>>, ff, mode)

\* assertLessThan negating modulo f instead of f - 1
assertLessThan_negateModF(x, ff, mode) ==
  IF ~(ff > 0) THEN Throws("assertLessThan: upper bound must be positive", <<>>)
  ELSE IF mode = "constant"
  THEN IF Field3toBigint(x) < ff THEN Ok(Undefined, <<>>)
       ELSE Throws("assertLessThan: got x >= f", <<>>)
  ELSE Ok(Undefined, ForeignFieldNegate(x, ff, mode).rows)

assertLessThan(x, ff, mode) ==
  IF ~(ff > 0) THEN Throws("assertLessThan: upper bound must be positive", <<>>)
  ELSE IF mode = "constant"
  THEN IF Field3toBigint(x) < ff THEN Ok(Undefined, <<>>)
       ELSE Throws("assertLessThan: got x >= f", <<>>)
  ELSE Ok(Undefined, ForeignFieldNegate(x, ff - 1, mode).rows)

-----------------------------------------------------------------------------
(* Multiplication core *)

\* compactMultiRangeCheck(xy, z) of range-check.js: splits the combined low
\* limbs, range-checks and returns the three limbs
compactMultiRangeCheck(xy, z) == <<band(xy, lMask), shr(xy, l), z>>

\* the quotient and remainder with the remainder taken as ab - q
mulQuotRem_noTimesF(x, y, ff) ==
  LET ab == combine(x) * combine(y)
      q == bigdiv(ab, ff)
  IN [q |-> q, r |-> ab - q]

\* compute q and r such that a*b = q*f + r
mulQuotRem(x, y, ff) ==
  LET ab == combine(x) * combine(y)
      q == bigdiv(ab, ff)
  IN [q |-> q, r |-> ab - q * ff]

\* the multiplication whose middle product term leaves out the quotient
multiplyNoRangeCheck_middleWithoutQuotient(x, y, ff) ==
  LET f_ == shl(1, l3) - ff
      f_s == split(f_)
      f2 == shr(ff, l2)
      f2Bound == shl(1, l) - f2 - 1
      qr == mulQuotRem(x, y, ff)
      qs == split(qr.q)
      rs == split(qr.r)
      r01 == combine2(<<rs[1], rs[2]>>)
      p0 == x[1] * y[1] + qs[1] * f_s[1]
      p1 == x[1] * y[2] + x[2] * y[1]
      p2 == x[1] * y[3] + x[2] * y[2] + x[3] * y[1]
            + qs[1] * f_s[3] + qs[2] * f_s[2] + qs[3] * f_s[1]
      p1s == split(p1)
      p11 == combine2(<<p1s[2], p1s[3]>>)
      c0 == shr(p0 + shl(p1s[1], l) - r01, l2)
      c1 == shr(p2 - rs[3] + p11 + c0, l)
      carry1p == <<bitSlice(c1, 0, 12), bitSlice(c1, 12, 12), bitSlice(c1, 24, 12),
                   bitSlice(c1, 36, 12), bitSlice(c1, 48, 12), bitSlice(c1, 60, 12),
                   bitSlice(c1, 72, 12)>>
      carry1c == <<bitSlice(c1, 84, 2), bitSlice(c1, 86, 2), bitSlice(c1, 88, 2),
                   bitSlice(c1, 90, 1)>>
      q2Bound == qs[3] + f2Bound
  IN [r01 |-> r01, r2 |-> rs[3], q |-> qs,
      rows |-> << Row("ForeignFieldMul",
                      x \o y \o <<r01, rs[3]>> \o qs \o <<toField(q2Bound)>> \o p1s
                        \o <<toField(c0)>>
                        \o carry1p \o carry1c \o <<f2>> \o f_s),
                  multiRangeCheck(<<p1s[1], p1s[2], toField(q2Bound)>>) >>]

multiplyNoRangeCheck(x, y, ff) ==
  LET f_ == shl(1, l3) - ff
      f_s == split(f_)
      f2 == shr(ff, l2)
      f2Bound == shl(1, l) - f2 - 1
      qr == mulQuotRem(x, y, ff)
      qs == split(qr.q)
      rs == split(qr.r)
      r01 == combine2(<<rs[1], rs[2]>>)
      p0 == x[1] * y[1] + qs[1] * f_s[1]
      p1 == x[1] * y[2] + x[2] * y[1] + qs[1] * f_s[2] + qs[2] * f_s[1]
      p2 == x[1] * y[3] + x[2] * y[2] + x[3] * y[1]
            + qs[1] * f_s[3] + qs[2] * f_s[2] + qs[3] * f_s[1]
      p1s == split(p1)
      p11 == combine2(<<p1s[2], p1s[3]>>)
      c0 == shr(p0 + shl(p1s[1], l) - r01, l2)
      c1 == shr(p2 - rs[3] + p11 + c0, l)
      carry1p == <<bitSlice(c1, 0, 12), bitSlice(c1, 12, 12), bitSlice(c1, 24, 12),
                   bitSlice(c1, 36, 12), bitSlice(c1, 48, 12), bitSlice(c1, 60, 12),
                   bitSlice(c1, 72, 12)>>
      carry1c == <<bitSlice(c1, 84, 2), bitSlice(c1, 86, 2), bitSlice(c1, 88, 2),
                   bitSlice(c1, 90, 1)>>
      q2Bound == qs[3] + f2Bound
  IN [r01 |-> r01, r2 |-> rs[3], q |-> qs,
      rows |-> << Row("ForeignFieldMul",
                      x \o y \o <<r01, rs[3]>> \o qs \o <<toField(q2Bound)>> \o p1s
                        \o <<toField(c0)>>
                        \o carry1p \o carry1c \o <<f2>> \o f_s),
                  multiRangeCheck(<<p1s[1], p1s[2], toField(q2Bound)>>) >>]

\* multiply accepting the modulus 2^259 itself
multiply_limitIncluded(x, y, ff, mode) ==
  IF ~(ff <= FLimit) THEN Throws("Foreign modulus fits in 259 bits", <<>>)
  ELSE IF mode = "constant"
  THEN Ok(Field3from(mod(Field3toBigint(x) * Field3toBigint(y), ff)), <<>>)
  ELSE LET checked(m) ==
             Ok(compactMultiRangeCheck(m.r01, m.r2),
                m.rows \o <<multiRangeCheck(m.q),
                            Row("CompactMultiRangeCheck", <<m.r01, m.r2>>)>>)
       IN checked(multiplyNoRangeCheck(x, y, ff))

multiply(x, y, ff, mode) ==
  IF ~(ff < FLimit) THEN Throws("Foreign modulus fits in 259 bits", <<>>)
  ELSE IF mode = "constant"
  THEN Ok(Field3from(mod(Field3toBigint(x) * Field3toBigint(y), ff)), <<>>)
  ELSE LET checked(m) ==
             Ok(compactMultiRangeCheck(m.r01, m.r2),
                m.rows \o <<multiRangeCheck(m.q),
                            Row("CompactMultiRangeCheck", <<m.r01, m.r2>>)>>)
       IN checked(multiplyNoRangeCheck(x, y, ff))

\* rows of assertMulInternal; xy is a Field3 or a Field2
assertMulInternal(x, y, xy, ff) ==
  LET asserted(m) ==
        m.rows \o <<multiRangeCheck(m.q)>> \o
        ( IF Len(xy) = 2
          THEN <<Row("AssertEquals", <<m.r01, xy[1]>>),
                 Row("AssertEquals", <<m.r2, xy[2]>>)>>
          ELSE <<Row("AssertEquals", <<m.r01, toField(xy[1] + xy[2] * shl(1, l))>>),
                 Row("AssertEquals", <<m.r2, xy[3]>>)>> )
  IN asserted(multiplyNoRangeCheck(x, y, ff))

weakBound(x, ff) == toField(x + (lMask - shr(ff, l2)))

-----------------------------------------------------------------------------
(* Division / inversion *)

\* inverse whose constant case does not assert that the inverse exists
inverse_noAssert(x, ff, mode) ==
  IF ~(ff < FLimit) THEN Throws("Foreign modulus fits in 259 bits", <<>>)
  ELSE IF mode = "constant"
  THEN LET xInv == modInverse(Field3toBigint(x), ff)
       IN Ok(Field3from(IF xInv = NoBigint THEN 0 ELSE xInv), <<>>)
  ELSE LET inv == modInverse(Field3toBigint(x), ff)
           xInv == IF inv = NoBigint THEN <<0, 0, 0>> ELSE split(inv)
           xInv2Bound == weakBound(xInv[3], ff)
       IN Ok(xInv,
             <<multiRangeCheck(xInv)>>
               \o assertMulInternal(x, xInv, <<1, 0>>, ff)
               \o <<multiRangeCheck(<<xInv2Bound, 0, 0>>)>>)

inverse(x, ff, mode) ==
  IF ~(ff < FLimit) THEN Throws("Foreign modulus fits in 259 bits", <<>>)
  ELSE IF mode = "constant"
  THEN LET xInv == modInverse(Field3toBigint(x), ff)
       IN IF xInv = NoBigint THEN Throws("inverse exists", <<>>)
          ELSE Ok(Field3from(xInv), <<>>)
  ELSE LET inv == modInverse(Field3toBigint(x), ff)
           xInv == IF inv = NoBigint THEN <<0, 0, 0>> ELSE split(inv)
           xInv2Bound == weakBound(xInv[3], ff)
       IN Ok(xInv,
             <<multiRangeCheck(xInv)>>
               \o assertMulInternal(x, xInv, <<1, 0>>, ff)
               \o <<multiRangeCheck(<<xInv2Bound, 0, 0>>)>>)

\* the guard comparing y with f twice and never with 0
zeroGuard_onlyF(y, ff) ==
  LET y01 == toField(y[1] + y[2] * shl(1, l))
      fs == split(ff)
      f01 == toField(combine2(<<fs[1], fs[2]>>))
  IN <<Row("AssertFalse", <<IF y01 = f01 /\ y[3] = fs[3] THEN 1 ELSE 0>>),
       Row("AssertFalse", <<IF y01 = f01 /\ y[3] = fs[3] THEN 1 ELSE 0>>)>>

\* the two rows of the y != 0 guard of divide
zeroGuard(y, ff) ==
  LET y01 == toField(y[1] + y[2] * shl(1, l))
      fs == split(ff)
      f01 == toField(combine2(<<fs[1], fs[2]>>))
  IN <<Row("AssertFalse", <<IF y01 = 0 /\ y[3] = 0 THEN 1 ELSE 0>>),
       Row("AssertFalse", <<IF y01 = f01 /\ y[3] = fs[3] THEN 1 ELSE 0>>)>>

\* divide inverting the dividend instead of the divisor
divide_invertsDividend(x, y, ff, allowZeroOverZero, mode) ==
  IF ~(ff < FLimit) THEN Throws("Foreign modulus fits in 259 bits", <<>>)
  ELSE IF mode = "constant"
  THEN LET xInv == modInverse(Field3toBigint(x), ff)
       IN IF xInv = NoBigint THEN Throws("inverse exists", <<>>)
          ELSE Ok(Field3from(mod(Field3toBigint(y) * xInv, ff)), <<>>)
  ELSE LET xInv == modInverse(Field3toBigint(x), ff)
           z == IF xInv = NoBigint THEN <<0, 0, 0>>
                ELSE split(mod(Field3toBigint(y) * xInv, ff))
           z2Bound == weakBound(z[3], ff)
       IN Ok(z,
             <<multiRangeCheck(z)>>
               \o assertMulInternal(z, y, x, ff)
               \o <<multiRangeCheck(<<z2Bound, 0, 0>>)>>
               \o (IF ~allowZeroOverZero THEN zeroGuard(y, ff) ELSE <<>>))

divide(x, y, ff, allowZeroOverZero, mode) ==
  IF ~(ff < FLimit) THEN Throws("Foreign modulus fits in 259 bits", <<>>)
  ELSE IF mode = "constant"
  THEN LET yInv == modInverse(Field3toBigint(y), ff)
       IN IF yInv = NoBigint THEN Throws("inverse exists", <<>>)
          ELSE Ok(Field3from(mod(Field3toBigint(x) * yInv, ff)), <<>>)
  ELSE LET yInv == modInverse(Field3toBigint(y), ff)
           z == IF yInv = NoBigint THEN <<0, 0, 0>>
                ELSE split(mod(Field3toBigint(x) * yInv, ff))
           z2Bound == weakBound(z[3], ff)
       IN Ok(z,
             <<multiRangeCheck(z)>>
               \o assertMulInternal(z, y, x, ff)
               \o <<multiRangeCheck(<<z2Bound, 0, 0>>)>>
               \o (IF ~allowZeroOverZero THEN zeroGuard(y, ff) ELSE <<>>))

-----------------------------------------------------------------------------
(* The state machine.  A run fixes a modulus and two operand values, then  *)
(* makes calls of the public operations on them, each call either with all *)
(* operands constant or with symbolic operands.                            *)

Modes == {"constant", "symbolic"}
Signs == {1, -1}

\* small moduli, moduli that reach into the high limb (2^(2l) + 1 and
\* 2^(3l - 2) - 3 are primes at l = 4), and the moduli next to the limits
\* 2^259 and 2^(3l)
Moduli == (1..MaxF) \cup {2^l2 + 1, FLimit - 3, FLimit - 1, FLimit,
                          2^l3 - 1, 2^l3, 2^l3 + 1}

\* operand values (limb-triples hold 0 .. 2^(3l) - 1): small ones, the ones
\* next to the modulus and its double, the ones next to the limb boundaries,
\* the largest triple
Vals(ff) == {v \in 0..(2^l3 - 1) :
               \/ v <= MaxV
               \/ v \in {ff - 1, ff, ff + 1, 2 * ff}
               \/ v \in {lMask, 2^l, l2Mask, 2^l2, 2^l3 - 1}}

\* the account fetcher before its first call: no endpoint set, nothing
\* cached, no request in flight
NoEndpoint == "none"
PublicKeys == {"pk1", "pk2"}
Endpoints == {"e1", "e2"}
CacheKey(publicKey, graphqlEndpoint) == <<publicKey, graphqlEndpoint>>
NoEntry == [account |-> [publicKey |-> "", nonce |-> ""], graphqlEndpoint |-> NoEndpoint,
            timestamp |-> -1]
FetchInit ==
  /\ defaultGraphqlEndpoint = NoEndpoint
  /\ accountCache = [k \in PublicKeys \X Endpoints |-> NoEntry]
  /\ now = 0
  /\ pending = <<>>
  /\ accountsToFetch = {}
  /\ fetching = <<>>

\* an operand of assertMul: a Sum object (its three fields), or a plain
\* Field3 held as the one summand
Operand(isSum, smds, sgns, res) ==
  [isSum |-> isSum, summands |-> smds, ops |-> sgns, result |-> res]
NoOperand == Operand(FALSE, <<>>, <<>>, <<>>)

NoCall == [op |-> "none", mode |-> "constant", args |-> <<>>, signs |-> <<>>,
           allow |-> FALSE, status |-> "ok", msg |-> "", value |-> Undefined,
           rows |-> <<>>]

Init ==
  /\ f \in Moduli
  /\ a \in Vals(f)
  /\ b \in Vals(f)
  /\ log = <<>>
  /\ FetchInit
  /\ ret = NoCall
  /\ ncalls = 0
  /\ summands = <<>>
  /\ ops = <<>>
  /\ result = Undefined
  /\ ySum = NoOperand
  /\ xySum = NoOperand

\* a call of op on the operand values args: the rows go to the log
Call(op, mode, args, signs, allow, out) ==
  /\ ncalls < MaxCalls
  /\ ncalls' = ncalls + 1
  /\ log' = log \o out.rows
  /\ ret' = [op |-> op, mode |-> mode, args |-> args, signs |-> signs, allow |-> allow,
             status |-> out.status, msg |-> out.msg, value |-> out.value,
             rows |-> out.rows]
  /\ UNCHANGED <<f, a, b, summands, ops, result, ySum, xySum>>
  /\ UNCHANGED fetchVars

Add == \E mode \in Modes :
  Call("add", mode, <<a, b>>, <<1>>, FALSE,
       ForeignFieldAdd(Field3from(a), Field3from(b), f, mode))

Sub == \E mode \in Modes :
  Call("sub", mode, <<a, b>>, <<-1>>, FALSE,
       ForeignFieldSub(Field3from(a), Field3from(b), f, mode))

Negate == \E mode \in Modes :
  Call("negate", mode, <<0, a>>, <<-1>>, FALSE,
       ForeignFieldNegate(Field3from(a), f, mode))

SumChain == \E mode \in Modes, s1 \in Signs, s2 \in Signs :
  Call("sum", mode, <<a, b, a>>, <<s1, s2>>, FALSE,
       sum(<<Field3from(a), Field3from(b), Field3from(a)>>, <<s1, s2>>, f, mode))

AssertLessThan == \E mode \in Modes :
  Call("assertLessThan", mode, <<a>>, <<>>, FALSE,
       assertLessThan(Field3from(a), f, mode))

Multiply == \E mode \in Modes :
  Call("multiply", mode, <<a, b>>, <<>>, FALSE,
       multiply(Field3from(a), Field3from(b), f, mode))

Inverse == \E mode \in Modes :
  Call("inverse", mode, <<a>>, <<>>, FALSE,
       inverse(Field3from(a), f, mode))

Divide == \E mode \in Modes, allow \in BOOLEAN :
  Call("divide", mode, <<a, b>>, <<>>, allow,
       divide(Field3from(a), Field3from(b), f, allow, mode))

NextAdd == Add \/ Sub \/ Negate \/ SumChain \/ AssertLessThan
SpecAdd == Init /\ [][NextAdd]_vars

NextMul == Multiply \/ Inverse \/ Divide \/ Add
SpecMul == Init /\ [][NextMul]_vars

-----------------------------------------------------------------------------
(* Sum: the deferred chain.  A summand is [limbs, const]: the limb-triple   *)
(* and whether all three Fields are constants.  The operators below give   *)
(* the outcome of a method together with the object's fields after it.     *)

MaxTerms == 3    \* summands one Sum may hold
MaxLog == 12     \* rows the log of a Sum run may hold

Summand(x, const) == [limbs |-> x, const |-> const]

\* Sum.isConstant
SumIsConstant(smds) == \A i \in 1..Len(smds) : smds[i].const

SumTerms(smds) == [i \in 1..Len(smds) |-> smds[i].limbs]

\* [out, summands, ops, result]: the outcome and the fields after the call
SumState(out, smds, sgns, res) ==
  [out |-> out, summands |-> smds, ops |-> sgns, result |-> res]

\* get result
SumResult(smds, sgns, res) ==
  IF res = Undefined THEN SumState(Throws("sum not finished", <<>>), smds, sgns, res)
  ELSE SumState(Ok(res, <<>>), smds, sgns, res)

\* add(y) for sign = 1, sub(y) for sign = -1
SumPush(smds, sgns, res, y, sign) ==
  IF res # Undefined THEN SumState(Throws("sum already finished", <<>>), smds, sgns, res)
  ELSE SumState(Ok(Undefined, <<>>), Append(smds, y), Append(sgns, sign), res)

\* finish returning the single summand of a zero-operation chain without
\* recording it as the result
SumFinish_zeroOpsUnrecorded(smds, sgns, res, ff, isChained) ==
  IF res # Undefined THEN SumState(Throws("sum already finished", <<>>), smds, sgns, res)
  ELSE IF Len(sgns) = 0
  THEN SumState(Ok(smds[1].limbs, <<>>), smds, sgns, res)
  ELSE IF SumIsConstant(smds)
  THEN LET out == sum(SumTerms(smds), sgns, ff, "constant")
       IN SumState(out, smds, sgns, out.value)
  ELSE LET chain == addChain(SumTerms(smds), sgns, ff, Len(sgns))
       IN SumState(Ok(chain.result,
                      chain.rows \o (IF ~isChained THEN <<GatesZero(chain.result)>>
                                     ELSE <<>>)),
                   smds, sgns, chain.result)

\* finish that closes the chain with a zero row even when it is chained
SumFinish_alwaysCloses(smds, sgns, res, ff, isChained) ==
  IF res # Undefined THEN SumState(Throws("sum already finished", <<>>), smds, sgns, res)
  ELSE IF Len(sgns) = 0
  THEN SumState(Ok(smds[1].limbs, <<>>), smds, sgns, smds[1].limbs)
  ELSE IF SumIsConstant(smds)
  THEN LET out == sum(SumTerms(smds), sgns, ff, "constant")
       IN SumState(out, smds, sgns, out.value)
  ELSE LET chain == addChain(SumTerms(smds), sgns, ff, Len(sgns))
       IN SumState(Ok(chain.result, chain.rows \o <<GatesZero(chain.result)>>),
                   smds, sgns, chain.result)

SumFinish(smds, sgns, res, ff, isChained) ==
  IF res # Undefined THEN SumState(Throws("sum already finished", <<>>), smds, sgns, res)
  ELSE IF Len(sgns) = 0
  THEN SumState(Ok(smds[1].limbs, <<>>), smds, sgns, smds[1].limbs)
  ELSE IF SumIsConstant(smds)
  THEN LET out == sum(SumTerms(smds), sgns, ff, "constant")
       IN SumState(out, smds, sgns, out.value)
  ELSE LET chain == addChain(SumTerms(smds), sgns, ff, Len(sgns))
       IN SumState(Ok(chain.result,
                      chain.rows \o (IF ~isChained THEN <<GatesZero(chain.result)>>
                                     ELSE <<>>)),
                   smds, sgns, chain.result)

\* the low-limb gates whose carry is taken before the overflow is applied
RECURSIVE lowLimbGates_carryBeforeOverflow(_, _, _, _)
lowLimbGates_carryBeforeOverflow(xs, signs, ff, n) ==
  IF n = 0
  THEN [xRef |-> Field3toBigint(xs[1]), x0 |-> xs[1][1], x0s |-> <<>>,
        overflows |-> <<>>, rows |-> <<>>]
  ELSE LET prev == lowLimbGates_carryBeforeOverflow(xs, signs, ff, n - 1)
           f0 == band(ff, lMask)
           xi == xs[n + 1]
           sign == signs[n]
           x == prev.xRef + sign * combine(xi)
           o1 == IF sign = 1 /\ x >= ff THEN 1 ELSE 0
           o2 == IF sign = -1 /\ x < 0 THEN -1 ELSE o1
           overflow == IF ff = 0 THEN 0 ELSE o2
           x0w == band(prev.xRef, lMask) + sign * xi[1]
           carry == shr(x0w, l)
           x0 == toField(prev.x0 + xi[1] * sign - toField(overflow) * f0
                           - toField(carry) * shl(1, l))
       IN [xRef |-> x - overflow * ff,
           x0 |-> x0,
           x0s |-> Append(prev.x0s, x0),
           overflows |-> Append(prev.overflows, toField(overflow)),
           rows |-> prev.rows \o
                    <<Row("AssertOneOf", <<toField(carry), 0, 1, -1>>),
                      Row("Generic", <<x0, prev.x0, xi[1], sign, toField(overflow), f0,
                                       toField(carry)>>)>>]

\* the generic gates for the low limbs of finishForMulInput, after n steps:
\* xRef (the unconstrained accumulator), x0 (the low-limb variable), the
\* x0s and overflows collected so far, and the rows
RECURSIVE lowLimbGates(_, _, _, _)
lowLimbGates(xs, signs, ff, n) ==
  IF n = 0
  THEN [xRef |-> Field3toBigint(xs[1]), x0 |-> xs[1][1], x0s |-> <<>>,
        overflows |-> <<>>, rows |-> <<>>]
  ELSE LET prev == lowLimbGates(xs, signs, ff, n - 1)
           f0 == band(ff, lMask)
           xi == xs[n + 1]
           sign == signs[n]
           x == prev.xRef + sign * combine(xi)
           o1 == IF sign = 1 /\ x >= ff THEN 1 ELSE 0
           o2 == IF sign = -1 /\ x < 0 THEN -1 ELSE o1
           overflow == IF ff = 0 THEN 0 ELSE o2
           x0w == band(prev.xRef, lMask) + sign * xi[1] - overflow * f0
           carry == shr(x0w, l)
           x0 == toField(prev.x0 + xi[1] * sign - toField(overflow) * f0
                           - toField(carry) * shl(1, l))
       IN [xRef |-> x - overflow * ff,
           x0 |-> x0,
           x0s |-> Append(prev.x0s, x0),
           overflows |-> Append(prev.overflows, toField(overflow)),
           rows |-> prev.rows \o
                    <<Row("AssertOneOf", <<toField(carry), 0, 1, -1>>),
                      Row("Generic", <<x0, prev.x0, xi[1], sign, toField(overflow), f0,
                                       toField(carry)>>)>>]

\* the ffadd chain whose every step starts again from the first summand
RECURSIVE wiredChain_restartsFromFirst(_, _, _, _, _)
wiredChain_restartsFromFirst(xs, signs, ff, low, n) ==
  IF n = 0 THEN [result |-> xs[1], rows |-> <<>>]
  ELSE LET prev == wiredChain_restartsFromFirst(xs, signs, ff, low, n - 1)
           step == singleAdd(xs[1], xs[n + 1], signs[n], ff)
       IN [result |-> step.result,
           rows |-> prev.rows \o
                    <<step.row,
                      Row("AssertEquals", <<step.result[1], low.x0s[n]>>),
                      Row("AssertEquals", <<step.overflow, low.overflows[n]>>)>>]

\* the ffadd chain of finishForMulInput after n steps, wired to the low limbs
RECURSIVE wiredChain(_, _, _, _, _)
wiredChain(xs, signs, ff, low, n) ==
  IF n = 0 THEN [result |-> xs[1], rows |-> <<>>]
  ELSE LET prev == wiredChain(xs, signs, ff, low, n - 1)
           step == singleAdd(prev.result, xs[n + 1], signs[n], ff)
       IN [result |-> step.result,
           rows |-> prev.rows \o
                    <<step.row,
                      Row("AssertEquals", <<step.result[1], low.x0s[n]>>),
                      Row("AssertEquals", <<step.overflow, low.overflows[n]>>)>>]

SumFinishForMulInput(smds, sgns, res, ff, isChained) ==
  IF res # Undefined THEN SumState(Throws("sum already finished", <<>>), smds, sgns, res)
  ELSE IF Len(sgns) = 0
  THEN SumState(Ok(smds[1].limbs, <<>>), smds, sgns, smds[1].limbs)
  ELSE IF SumIsConstant(smds)
  THEN LET out == sum(SumTerms(smds), sgns, ff, "constant")
       IN SumState(out, smds, sgns, out.value)
  ELSE LET xs == SumTerms(smds)
           low == lowLimbGates(xs, sgns, ff, Len(sgns))
           chain == wiredChain(xs, sgns, ff, low, Len(sgns))
       IN SumState(Ok(chain.result,
                      low.rows \o chain.rows
                        \o (IF ~isChained THEN <<GatesZero(chain.result)>> ELSE <<>>)),
                   smds, sgns, chain.result)

SumRangeCheck(smds, sgns, res) ==
  IF res = Undefined THEN SumState(Throws("sum not finished", <<>>), smds, sgns, res)
  ELSE SumState(Ok(Undefined, IF Len(sgns) > 0 THEN <<multiRangeCheck(res)>> ELSE <<>>),
                smds, sgns, res)

\* Sum.fromUnfinished(x) for x a Sum
SumFromUnfinished(smds, sgns, res) ==
  IF res # Undefined THEN SumState(Throws("sum already finished", <<>>), smds, sgns, res)
  ELSE SumState(Ok(Undefined, <<>>), smds, sgns, res)

-----------------------------------------------------------------------------
(* Bound and range-check amortizer *)

\* the loop that does not empty the list of bounds after a flush
RECURSIVE almostLoop_keepsFlushedBounds(_, _, _)
almostLoop_keepsFlushedBounds(xs, ff, n) ==
  IF n = 0 THEN [rows |-> <<>>, bounds |-> <<>>]
  ELSE LET prev == almostLoop_keepsFlushedBounds(xs, ff, n - 1)
           rows1 == Append(prev.rows, multiRangeCheck(xs[n]))
           bounds1 == Append(prev.bounds, weakBound(xs[n][3], ff))
       IN IF Len(bounds1) = 3
          THEN [rows |-> Append(rows1, multiRangeCheck(bounds1)), bounds |-> bounds1]
          ELSE [rows |-> rows1, bounds |-> bounds1]

\* the loop of assertAlmostFieldElements after n values: the range checks
\* made so far and the bounds not yet flushed
RECURSIVE almostLoop(_, _, _)
almostLoop(xs, ff, n) ==
  IF n = 0 THEN [rows |-> <<>>, bounds |-> <<>>]
  ELSE LET prev == almostLoop(xs, ff, n - 1)
           rows1 == Append(prev.rows, multiRangeCheck(xs[n]))
           bounds1 == Append(prev.bounds, weakBound(xs[n][3], ff))
       IN IF Len(bounds1) = 3
          THEN [rows |-> Append(rows1, multiRangeCheck(bounds1)), bounds |-> <<>>]
          ELSE [rows |-> rows1, bounds |-> bounds1]

\* the range checks of assertAlmostFieldElements(xs, f), in call order
almostChecks(xs, ff) ==
  LET loop == almostLoop(xs, ff, Len(xs))
  IN loop.rows
       \o (IF Len(loop.bounds) = 1
           THEN <<multiRangeCheck(loop.bounds \o <<0, 0>>)>> ELSE <<>>)
       \o (IF Len(loop.bounds) = 2
           THEN <<multiRangeCheck(loop.bounds \o <<0>>)>> ELSE <<>>)

\* a range check on constants is decided at once and leaves no row
constantChecks(rows) ==
  IF Satisfied(rows) THEN Ok(Undefined, <<>>)
  ELSE Throws("range check on constants", <<>>)

assertAlmostFieldElements(xs, ff, mode) ==
  IF mode = "constant" THEN constantChecks(almostChecks(xs, ff))
  ELSE Ok(Undefined, almostChecks(xs, ff))

-----------------------------------------------------------------------------
(* assertMul: multiplication of sums *)

\* 1n << 258n, the limit of the bound of assertMul
MulSumLimit == 2^(FBits - 1)

\* Math.ceil(Math.sqrt(n))
ceilSqrt(n) == CHOOSE k \in 0..n : k * k >= n /\ (k = 0 \/ (k - 1) * (k - 1) < n)

\* [out, x, y, xy]: the outcome and the three operands after the call
MulState(out, x, y, xy) == [out |-> out, x |-> x, y |-> y, xy |-> xy]

\* Sum.fromUnfinished(x) fails on a Sum that is finished
isFinished(x) == x.isSum /\ x.result # Undefined

\* the operand after its finalize: a Sum holds the result, a plain Field3
\* was wrapped into a Sum of the call's own
finalized(x, st) == IF x.isSum THEN Operand(TRUE, st.summands, st.ops, st.result) ELSE x

\* the part of assertMul after the three finalize calls y0, xy0, x0: the
\* constant case or assertMulInternal on the finalized values
assertMulFinalized(x, y, xy, ff, y0, xy0, x0, rows) ==
  IF SumIsConstant(x.summands) /\ SumIsConstant(y.summands) /\ SumIsConstant(xy.summands)
  THEN IF mod(Field3toBigint(x0.out.value) * Field3toBigint(y0.out.value), ff)
            = Field3toBigint(xy0.out.value)
       THEN MulState(Ok(Undefined, rows),
                     finalized(x, x0), finalized(y, y0), finalized(xy, xy0))
       ELSE MulState(Throws("incorrect multiplication result", rows),
                     finalized(x, x0), finalized(y, y0), finalized(xy, xy0))
  ELSE MulState(Ok(Undefined,
                   rows \o assertMulInternal(x0.out.value, y0.out.value,
                                             xy0.out.value, ff)),
                finalized(x, x0), finalized(y, y0), finalized(xy, xy0))

\* the three finalize calls of assertMul, in the order y, xy, x
assertMulFinalize(x, y, xy, ff, y0, xy0, x0) ==
  assertMulFinalized(x, y, xy, ff, y0, xy0, x0,
                     y0.out.rows \o xy0.out.rows \o x0.out.rows)

\* the bound of assertMul checked only after the three finalize calls
assertMulBoundLate(x, y, xy, ff, y0, xy0, x0) ==
  IF ~(ceilSqrt(Len(x.summands) * Len(y.summands)) * ff < MulSumLimit)
  THEN MulState(Throws("Foreign modulus is too large for multiplication of sums",
                       y0.out.rows \o xy0.out.rows \o x0.out.rows),
                finalized(x, x0), finalized(y, y0), finalized(xy, xy0))
  ELSE assertMulFinalize(x, y, xy, ff, y0, xy0, x0)

\* assertMul that finalizes the operands first and checks the bound after
assertMul_boundAfterFinalize(x, y, xy, ff) ==
  IF isFinished(x) \/ isFinished(y) \/ isFinished(xy)
  THEN MulState(Throws("sum already finished", <<>>), x, y, xy)
  ELSE assertMulBoundLate(x, y, xy, ff,
                          SumFinishForMulInput(y.summands, y.ops, Undefined, ff, FALSE),
                          SumFinish(xy.summands, xy.ops, Undefined, ff, FALSE),
                          SumFinishForMulInput(x.summands, x.ops, Undefined, ff, TRUE))

assertMul(x, y, xy, ff) ==
  IF isFinished(x) \/ isFinished(y) \/ isFinished(xy)
  THEN MulState(Throws("sum already finished", <<>>), x, y, xy)
  ELSE IF ~(ceilSqrt(Len(x.summands) * Len(y.summands)) * ff < MulSumLimit)
  THEN MulState(Throws("Foreign modulus is too large for multiplication of sums", <<>>),
                x, y, xy)
  ELSE assertMulFinalize(x, y, xy, ff,
                         SumFinishForMulInput(y.summands, y.ops, Undefined, ff, FALSE),
                         SumFinish(xy.summands, xy.ops, Undefined, ff, FALSE),
                         SumFinishForMulInput(x.summands, x.ops, Undefined, ff, TRUE))

\* a run on one Sum: new Sum(x) on the operand a, constant or symbolic
InitSum ==
  /\ f = 2^l2 + MaxF
  /\ a \in {0, l2Mask, f - 1}
  /\ b \in {0, l2Mask, f - 1}
  /\ log = <<>>
  /\ FetchInit
  /\ ret = NoCall
  /\ ncalls = 0
  /\ \E const \in BOOLEAN : summands = <<Summand(Field3from(a), const)>>
  /\ ops = <<>>
  /\ result = Undefined
  /\ ySum = NoOperand
  /\ xySum = NoOperand

\* a method call on the Sum: st is the SumState the method yields
SumCall(op, args, signs, st) ==
  /\ Len(log) + Len(st.out.rows) <= MaxLog
  /\ log' = log \o st.out.rows
  /\ summands' = st.summands
  /\ ops' = st.ops
  /\ result' = st.result
  /\ ret' = [op |-> op, mode |-> IF SumIsConstant(summands) THEN "constant" ELSE "symbolic",
             args |-> args, signs |-> signs, allow |-> FALSE,
             status |-> st.out.status, msg |-> st.out.msg, value |-> st.out.value,
             rows |-> st.out.rows]
  /\ UNCHANGED <<f, a, b, ncalls, ySum, xySum>>
  /\ UNCHANGED fetchVars

SumAdd == \E const \in BOOLEAN :
  /\ Len(summands) < MaxTerms
  /\ SumCall("Sum.add", <<b>>, <<1>>,
             SumPush(summands, ops, result, Summand(Field3from(b), const), 1))

SumSub == \E const \in BOOLEAN :
  /\ Len(summands) < MaxTerms
  /\ SumCall("Sum.sub", <<b>>, <<-1>>,
             SumPush(summands, ops, result, Summand(Field3from(b), const), -1))

SumGetResult ==
  SumCall("Sum.result", <<>>, <<>>, SumResult(summands, ops, result))

Finish == \E isChained \in BOOLEAN :
  SumCall("Sum.finish", <<>>, <<>>, SumFinish(summands, ops, result, f, isChained))

FinishForMulInput == \E isChained \in BOOLEAN :
  SumCall("Sum.finishForMulInput", <<>>, <<>>,
          SumFinishForMulInput(summands, ops, result, f, isChained))

RangeCheck ==
  SumCall("Sum.rangeCheck", <<>>, <<>>, SumRangeCheck(summands, ops, result))

FromUnfinished ==
  SumCall("Sum.fromUnfinished", <<>>, <<>>, SumFromUnfinished(summands, ops, result))

NextSum == SumAdd \/ SumSub \/ SumGetResult \/ Finish \/ FinishForMulInput
             \/ RangeCheck \/ FromUnfinished
SpecSum == InitSum /\ [][NextSum]_vars

-----------------------------------------------------------------------------
(* Runs on the multiplication of sums: a run holds three operands, the Sum *)
(* x (summands, ops, result) and the operands y and xy, each a Field3 or a *)
(* Sum under construction; x grows by add / sub, and the run finalizes the *)
(* operands directly or through assertMul.                                 *)

MaxXs == 4       \* values one call of assertAlmostFieldElements is given

\* a plain Field3 v and the Sum v + sign * w, all constant or all symbolic
Operands(v, w, sign) ==
  UNION {{ Operand(FALSE, <<Summand(Field3from(v), c)>>, <<>>, Undefined),
           Operand(TRUE, <<Summand(Field3from(v), c), Summand(Field3from(w), c)>>,
                   <<sign>>, Undefined) } : c \in BOOLEAN}

\* a small modulus, the moduli next to the bounds of assertMul for two and
\* for more terms, the largest modulus of assertMul, and one beyond 2^(3l)
GadgetModuli == {MaxF, MulSumLimit \div 3 + 1, MulSumLimit \div 2, MulSumLimit - 1,
                 2^l3 + 1}

InitGadget ==
  /\ f \in GadgetModuli
  /\ a \in {0, (IF f < 2^l3 THEN f ELSE 2^l3) - 1}
  /\ b \in {1, f + 1} \cap (0..(2^l3 - 1))
  /\ log = <<>>
  /\ FetchInit
  /\ ret = NoCall
  /\ ncalls = 0
  /\ \E const \in BOOLEAN : summands = <<Summand(Field3from(a), const)>>
  /\ ops = <<>>
  /\ result = Undefined
  /\ ySum \in Operands(b, a, -1)
  /\ xySum \in Operands(a, b, 1)
  /\ SumIsConstant(ySum.summands) = SumIsConstant(xySum.summands)

\* assertMul(x, ySum, xySum, f) on the Sum x of the run
AssertMul ==
  \E st \in {assertMul(Operand(TRUE, summands, ops, result), ySum, xySum, f)} :
     /\ log' = log \o st.out.rows
     /\ summands' = st.x.summands
     /\ ops' = st.x.ops
     /\ result' = st.x.result
     /\ ySum' = st.y
     /\ xySum' = st.xy
     /\ ret' = [op |-> "assertMul",
                mode |-> IF SumIsConstant(summands) /\ SumIsConstant(ySum.summands)
                              /\ SumIsConstant(xySum.summands)
                         THEN "constant" ELSE "symbolic",
                args |-> <<>>, signs |-> <<>>, allow |-> FALSE,
                status |-> st.out.status, msg |-> st.out.msg, value |-> st.out.value,
                rows |-> st.out.rows]
     /\ UNCHANGED <<f, a, b, ncalls>>
     /\ UNCHANGED fetchVars

\* assertAlmostFieldElements on the values a, b, a, b, ...
AssertAlmostFieldElements == \E mode \in Modes, n \in 0..MaxXs :
  LET xs == [i \in 1..n |-> IF i % 2 = 1 THEN a ELSE b]
  IN Call("assertAlmostFieldElements", mode, xs, <<>>, FALSE,
          assertAlmostFieldElements([i \in 1..n |-> Field3from(xs[i])], f, mode))

NextGadget == SumAdd \/ SumSub \/ Finish \/ FinishForMulInput \/ AssertMul
SpecGadget == InitGadget /\ [][NextGadget]_vars

\* runs that mix all public operations on one constraint log: the Sum x is
\* a + b, y is the Field3 b and xy is the Sum a + b
InitFold ==
  /\ f \in {MaxF, FLimit}
  /\ a = MaxV
  /\ b \in {0, 1}
  /\ log = <<>>
  /\ FetchInit
  /\ ret = NoCall
  /\ ncalls = 0
  /\ \E const \in BOOLEAN :
        summands = <<Summand(Field3from(a), const), Summand(Field3from(b), const)>>
  /\ ops = <<1>>
  /\ result = Undefined
  /\ \E const \in BOOLEAN :
        /\ ySum = Operand(FALSE, <<Summand(Field3from(b), const)>>, <<>>, Undefined)
        /\ xySum = Operand(TRUE, <<Summand(Field3from(a), const),
                                   Summand(Field3from(b), const)>>, <<1>>, Undefined)

NextFold == Add \/ Sub \/ Negate \/ SumChain \/ AssertLessThan
              \/ Multiply \/ Inverse \/ Divide
              \/ AssertAlmostFieldElements \/ AssertMul \/ Finish \/ FinishForMulInput
SpecFold == InitFold /\ [][NextFold]_vars

\* runs of the bound and range-check amortizer alone
NextBounds == AssertAlmostFieldElements
SpecBounds == Init /\ [][NextBounds]_vars

-----------------------------------------------------------------------------
(* Limb codec runs: a run draws an integer and decomposes / recombines it. *)

InitCodec ==
  /\ f = 1
  /\ a \in 0..(2^l3 + MaxV)
  /\ b = 0
  /\ log = <<>>
  /\ FetchInit
  /\ ret = NoCall
  /\ ncalls = 0
  /\ summands = <<>>
  /\ ops = <<>>
  /\ result = Undefined
  /\ ySum = NoOperand
  /\ xySum = NoOperand

\* a codec function applied to args, giving value; no row is involved
CodecCall(op, args, value) ==
  /\ ret' = [op |-> op, mode |-> "constant", args |-> args, signs |-> <<>>,
             allow |-> FALSE, status |-> "ok", msg |-> "", value |-> value,
             rows |-> <<>>]
  /\ UNCHANGED <<f, a, b, log, ncalls, summands, ops, result, ySum, xySum>>
  /\ UNCHANGED fetchVars

\* Field3.from(a)
CodecFrom ==
  /\ ret.op = "none"
  /\ CodecCall("Field3.from", <<a>>, Field3from(a))

\* Field3.toBigint of the limbs produced before
CodecToBigint ==
  /\ ret.op = "Field3.from"
  /\ CodecCall("Field3.toBigint", ret.value, <<Field3toBigint(ret.value)>>)

\* split2(a)
CodecSplit2 ==
  /\ ret.op = "none"
  /\ CodecCall("split2", <<a>>, split2(a))

\* combine2 of the limbs produced before
CodecCombine2 ==
  /\ ret.op = "split2"
  /\ CodecCall("combine2", ret.value, <<combine2(ret.value)>>)

NextCodec == CodecFrom \/ CodecToBigint \/ CodecSplit2 \/ CodecCombine2
SpecCodec == InitCodec /\ [][NextCodec]_vars

-----------------------------------------------------------------------------
(* The account fetcher.  fetchAccount is asynchronous: the call runs up to *)
(* the request, the request is in flight until the endpoint answers or the *)
(* request fails, and the continuation then runs to the return.  The       *)
(* continuations between the awaits touch no shared state before the cache *)
(* write, so they are one step.                                            *)

MaxFetches == 3  \* calls of fetchAccount in one run
MaxNow == 2      \* clock readings 0..MaxNow

\* nonces as the endpoint sends them (strings)
Nonces == {"0", "1"}
\* UInt32.fromString
UInt32fromString(str) == CASE str = "0" -> 0 [] str = "1" -> 1 [] OTHER -> -1

\* stands for undefined where an account or an error is expected
NoAccount == [publicKey |-> "", nonce |-> ""]
NoError == [statusCode |-> 0, statusText |-> ""]

\* parseFetchedAccount: the public key becomes a PublicKey, the nonce a UInt32
parseFetchedAccount(account) ==
  [publicKey |-> <<"PublicKey", account.publicKey>>,
   nonce |-> UInt32fromString(account.nonce)]

\* what can come back for a request on publicKey: an OK response with the
\* account or with a null account, a non-OK response, or no response at all
\* (the request fails or is aborted by the timer)
Responses(publicKey) ==
  {[kind |-> "account", ok |-> TRUE, status |-> 200, statusText |-> "OK",
    account |-> [publicKey |-> publicKey, nonce |-> n]] : n \in Nonces}
  \cup {[kind |-> "null", ok |-> TRUE, status |-> 200, statusText |-> "OK",
         account |-> NoAccount],
        [kind |-> "status", ok |-> FALSE, status |-> 503,
         statusText |-> "Service Unavailable", account |-> NoAccount],
        [kind |-> "failure", ok |-> FALSE, status |-> 0, statusText |-> "",
         account |-> NoAccount]}

\* inferError: what is thrown is never an AbortSignal
inferError == [statusCode |-> 500, statusText |-> "Unknown Error"]

\* checkResponseStatus: [response, error]
checkResponseStatus(response) ==
  IF response.ok THEN [account |-> response.account, isNull |-> response.kind = "null",
                       error |-> NoError]
  ELSE [account |-> NoAccount, isNull |-> FALSE,
        error |-> [statusCode |-> response.status, statusText |-> response.statusText]]

\* makeGraphqlRequest from the answer on: [response, error]
makeGraphqlRequest(response) ==
  IF response.kind = "failure"
  THEN [account |-> NoAccount, isNull |-> FALSE, error |-> inferError]
  ELSE checkResponseStatus(response)

\* fetchAccountInternal from the answer on: {account, error}
fetchAccountInternal(response) ==
  LET r == makeGraphqlRequest(response)
  IN IF r.error # NoError THEN [account |-> NoAccount, error |-> r.error]
     ELSE IF r.isNull
     THEN [account |-> NoAccount,
           error |-> [statusCode |-> 404, statusText |-> "Account does not exist."]]
     ELSE [account |-> r.account, error |-> NoError]

\* addCachedAccountInternal
addCachedAccountInternal(cache, account, graphqlEndpoint, time) ==
  [cache EXCEPT ![CacheKey(account.publicKey, graphqlEndpoint)] =
     [account |-> account, graphqlEndpoint |-> graphqlEndpoint, timestamp |-> time]]

\* the outcome of a fetchAccount call: the promise resolves (ok) or rejects
Fetched(args, status, msg, value) ==
  [op |-> "fetchAccount", mode |-> "constant", args |-> args, signs |-> <<>>,
   allow |-> FALSE, status |-> status, msg |-> msg, value |-> value, rows |-> <<>>]

gadgetVars == <<f, a, b, log, summands, ops, result, ySum, xySum>>

SetGraphqlEndpoint == \E e \in Endpoints :
  /\ defaultGraphqlEndpoint' = e
  /\ UNCHANGED <<gadgetVars, ret, ncalls, accountCache, now, pending, accountsToFetch,
                  fetching>>

\* fetchAccount(publicKey, graphqlEndpoint) up to the request; useDefault
\* stands for a call without the endpoint argument
FetchAccountCall == \E publicKey \in PublicKeys, e \in Endpoints, useDefault \in BOOLEAN :
  LET graphqlEndpoint == IF useDefault THEN defaultGraphqlEndpoint ELSE e
  IN /\ ncalls < MaxFetches
     /\ ncalls' = ncalls + 1
     /\ IF graphqlEndpoint = NoEndpoint
        THEN /\ ret' = Fetched(<<publicKey, graphqlEndpoint, "no request">>, "throws",
                               "Should have made a graphql request", NoAccount)
             /\ pending' = pending
        ELSE /\ pending' = Append(pending, [publicKey |-> publicKey,
                                            graphqlEndpoint |-> graphqlEndpoint])
             /\ ret' = ret
     /\ UNCHANGED <<gadgetVars, defaultGraphqlEndpoint, accountCache, now, accountsToFetch,
                     fetching>>

\* the answer to a request in flight, and fetchAccount from there to its return
FetchAccountReturn == \E i \in 1..Len(pending) : \E response \in Responses(pending[i].publicKey) :
  LET req == pending[i]
      r == fetchAccountInternal(response)
  IN /\ pending' = SubSeq(pending, 1, i - 1) \o SubSeq(pending, i + 1, Len(pending))
     /\ accountCache' = IF r.error = NoError
                        THEN addCachedAccountInternal(accountCache, r.account,
                                                      req.graphqlEndpoint, now)
                        ELSE accountCache
     /\ ret' = Fetched(<<req.publicKey, req.graphqlEndpoint, response.kind>>, "ok", "",
                       IF r.error = NoError
                       THEN [account |-> parseFetchedAccount(r.account), error |-> NoError]
                       ELSE [account |-> NoAccount, error |-> r.error])
     /\ UNCHANGED <<gadgetVars, ncalls, defaultGraphqlEndpoint, now, accountsToFetch,
                     fetching>>

\* time passes
Tick ==
  /\ now < MaxNow
  /\ now' = now + 1
  /\ UNCHANGED <<gadgetVars, ret, ncalls, defaultGraphqlEndpoint, accountCache, pending,
                  accountsToFetch, fetching>>

InitFetch ==
  /\ f = 1 /\ a = 0 /\ b = 0
  /\ log = <<>>
  /\ FetchInit
  /\ ret = NoCall
  /\ ncalls = 0
  /\ summands = <<>>
  /\ ops = <<>>
  /\ result = Undefined
  /\ ySum = NoOperand
  /\ xySum = NoOperand

NextFetch == SetGraphqlEndpoint \/ FetchAccountCall \/ FetchAccountReturn \/ Tick
SpecFetch == InitFetch /\ [][NextFetch]_vars

-----------------------------------------------------------------------------
(* The accounts marked to be fetched.  fetchMissingAccounts reads the      *)
(* clock, the marks and the cache in one step and starts one request per   *)
(* selected account; the requests complete in any order, each completion   *)
(* being one step of its own (the callback after the await).               *)

\* 10 * 60 * 1000 ms, in clock readings of the model
cacheExpiry == 1

\* an entry of accountsToFetch (its key is the pair of its two fields)
Marked(publicKey, graphqlEndpoint) ==
  [publicKey |-> publicKey, graphqlEndpoint |-> graphqlEndpoint]

\* the filter of fetchMissingAccounts: the marked accounts it fetches
missingAccounts(marks, cache, graphqlEndpoint, time) ==
  LET expired == time - cacheExpiry
  IN {account \in marks :
        /\ account.graphqlEndpoint = graphqlEndpoint
        /\ LET cachedAccount == cache[CacheKey(account.publicKey, account.graphqlEndpoint)]
           IN cachedAccount = NoEntry \/ cachedAccount.timestamp > expired}

\* the requests of a set of accounts, as a sequence in some order
RECURSIVE requestsOf(_)
requestsOf(accounts) ==
  IF accounts = {} THEN <<>>
  ELSE LET account == CHOOSE x \in accounts : TRUE
       IN <<account>> \o requestsOf(accounts \ {account})

\* the outcome of a step of fetchMissingAccounts
Missing(op, args, value) ==
  [op |-> op, mode |-> "constant", args |-> args, signs |-> <<>>,
   allow |-> FALSE, status |-> "ok", msg |-> "", value |-> value, rows |-> <<>>]

MarkAccountToBeFetched == \E publicKey \in PublicKeys, graphqlEndpoint \in Endpoints :
  /\ ncalls < MaxFetches
  /\ ncalls' = ncalls + 1
  /\ accountsToFetch' = accountsToFetch \cup {Marked(publicKey, graphqlEndpoint)}
  /\ ret' = Missing("markAccountToBeFetched", <<publicKey, graphqlEndpoint>>, Undefined)
  /\ UNCHANGED <<gadgetVars, defaultGraphqlEndpoint, accountCache, now, pending, fetching>>

\* addCachedAccount(account, graphqlEndpoint) with an account of nonce 0
AddCachedAccount == \E publicKey \in PublicKeys, graphqlEndpoint \in Endpoints :
  /\ ncalls < MaxFetches
  /\ ncalls' = ncalls + 1
  /\ accountCache' = addCachedAccountInternal(accountCache,
                        [publicKey |-> publicKey, nonce |-> "0"], graphqlEndpoint, now)
  /\ ret' = Missing("addCachedAccount", <<publicKey, graphqlEndpoint>>, Undefined)
  /\ UNCHANGED <<gadgetVars, defaultGraphqlEndpoint, now, pending, accountsToFetch,
                 fetching>>

\* fetchMissingAccounts(graphqlEndpoint) up to the requests; value holds the
\* requests it starts
FetchMissingAccounts == \E graphqlEndpoint \in Endpoints :
  /\ ncalls < MaxFetches
  /\ ncalls' = ncalls + 1
  /\ \E accounts \in {missingAccounts(accountsToFetch, accountCache, graphqlEndpoint, now)} :
       /\ fetching' = fetching \o requestsOf(accounts)
       /\ ret' = Missing("fetchMissingAccounts", <<graphqlEndpoint>>, requestsOf(accounts))
  /\ UNCHANGED <<gadgetVars, defaultGraphqlEndpoint, accountCache, now, pending,
                 accountsToFetch>>

\* the answer to one request of fetchMissingAccounts and the callback on it:
\* fetchAccountInternal caches the account, the callback removes the mark;
\* value holds the account fetched, if any
FetchMissingReturn == \E i \in 1..Len(fetching) :
  \E response \in Responses(fetching[i].publicKey) :
    \E r \in {fetchAccountInternal(response)} :
      /\ fetching' = SubSeq(fetching, 1, i - 1) \o SubSeq(fetching, i + 1, Len(fetching))
      /\ accountCache' = IF r.error = NoError
                         THEN addCachedAccountInternal(accountCache, r.account,
                                                       fetching[i].graphqlEndpoint, now)
                         ELSE accountCache
      /\ accountsToFetch' = IF r.error = NoError THEN accountsToFetch \ {fetching[i]}
                            ELSE accountsToFetch
      /\ ret' = Missing("fetchMissingAccounts: response",
                        <<fetching[i].publicKey, fetching[i].graphqlEndpoint, response.kind>>,
                        IF r.error = NoError THEN <<r.account>> ELSE Undefined)
      /\ UNCHANGED <<gadgetVars, ncalls, defaultGraphqlEndpoint, now, pending>>

NextMissing == MarkAccountToBeFetched \/ AddCachedAccount \/ FetchMissingAccounts
                 \/ FetchMissingReturn \/ Tick
SpecMissing == InitFetch /\ [][NextMissing]_vars

-----------------------------------------------------------------------------
(* Properties: helpers *)

\* t0 + sum_i sign_i * t_i over the integers
RECURSIVE ChainValue(_, _)
ChainValue(terms, signs) ==
  IF Len(signs) = 0 THEN terms[1]
  ELSE ChainValue(SubSeq(terms, 1, Len(signs)), SubSeq(signs, 1, Len(signs) - 1))
       + signs[Len(signs)] * terms[Len(terms)]

ArgsInField == \A i \in 1..Len(ret.args) : ret.args[i] \in 0..(f - 1)

IsChainCall == ret.op \in {"add", "sub", "negate", "sum"}

ChainSound ==
  /\ ret.status = "ok"
  /\ combine(ret.value) = (ChainValue(ret.args, ret.signs)) % f

Invertible(x, ff) == \E v \in 0..(ff - 1) : (v * x) % ff = 1

RowsOf(gate) == {i \in 1..Len(ret.rows) : ret.rows[i].gate = gate}

\* the relation asserted by assertMulInternal holds of the honest witness
MulRelationHolds == \A i \in RowsOf("AssertEquals") : ~Violated(ret.rows[i])

\* the ForeignFieldMul row of the last call
MulRow == ret.rows[CHOOSE i \in RowsOf("ForeignFieldMul") : TRUE]
MulRow_q == combine(SubSeq(MulRow.cells, 9, 11))
MulRow_r == MulRow.cells[7] + MulRow.cells[8] * 2^l2

-----------------------------------------------------------------------------
(* C1: addition soundness *)

\* C1 (as stated): for every modulus f > 0 and every chain of terms in [0, f),
\* sum / add / sub / negate return a limb-triple that recombines to
\* (t0 + sum_i sign_i * t_i) mod f, in constant and in symbolic mode.
C1_AdditionSoundEveryModulus ==
  (IsChainCall /\ f > 0 /\ ArgsInField) => ChainSound

\* C1 (amended): the same for every modulus 0 < f < 2^(3l), the moduli a
\* limb-triple can hold.
C1_AdditionSound ==
  (IsChainCall /\ f > 0 /\ f < 2^l3 /\ ArgsInField) => ChainSound

\* a symbolic chain a + b - a whose first step overflows and whose second
\* step underflows
C1_Witness ==
  /\ ret.op = "sum" /\ ret.mode = "symbolic" /\ ret.signs = <<1, -1>>
  /\ f < 2^l3 /\ ArgsInField
  /\ a + b >= f /\ a + b - f - a < 0
  /\ ret.rows[1].cells[7] = 1 /\ ret.rows[2].cells[7] = toField(-1)

-----------------------------------------------------------------------------
(* C2: multiplication soundness *)

\* C2: for f < 2^259 and x, y in [0, f), multiply returns (x*y) mod f; in
\* symbolic mode the witnessed q, r satisfy x*y = q*f + r, 0 <= r < f, and
\* the returned remainder equals r.
C2_MultiplySound ==
  (ret.op = "multiply" /\ f < FLimit /\ ArgsInField) =>
     /\ ret.status = "ok"
     /\ combine(ret.value) = (a * b) % f
     /\ ret.mode = "symbolic" =>
          /\ a * b = MulRow_q * f + MulRow_r
          /\ MulRow_r \in 0..(f - 1)
          /\ combine(ret.value) = MulRow_r

C2_Witness ==
  /\ ret.op = "multiply" /\ ret.mode = "symbolic" /\ ret.status = "ok"
  /\ f = FLimit - 1 /\ a = f - 1 /\ b = f - 1
  /\ MulRow_q > 0 /\ MulRow_r > 0

-----------------------------------------------------------------------------
(* C3: division soundness *)

DivideSound ==
  /\ ret.status = "ok"
  /\ (combine(ret.value) * b) % f = a % f
  /\ ret.mode = "symbolic" => MulRelationHolds

\* C3 (as stated): for f < 2^259, x in [0, f) and every y not in {0, f},
\* divide returns z with z*y = x (mod f), in both modes.
C3_DivideSoundEveryDivisor ==
  (ret.op = "divide" /\ f < FLimit /\ a \in 0..(f - 1) /\ b \notin {0, f}) => DivideSound

\* C3 (amended): the same for every y that has an inverse modulo f.
C3_DivideSound ==
  (ret.op = "divide" /\ f < FLimit /\ a \in 0..(f - 1) /\ Invertible(b, f)) => DivideSound

C3_Witness ==
  /\ ret.op = "divide" /\ ret.mode = "symbolic" /\ ret.status = "ok"
  /\ f = 7 /\ a = 3 /\ b = 2 /\ combine(ret.value) = 5
  /\ RowsOf("AssertEquals") # {}

-----------------------------------------------------------------------------
(* C4: inversion *)

\* C4: for f < 2^259 and x invertible mod f, inverse returns v with
\* v*x = 1 (mod f) in both modes; inverse(0, f) fails: in constant mode at
\* construction with no row emitted, in symbolic mode the call returns the
\* filler (0,0,0) and the asserted relation x*v = 1 is violated.
C4_Inverse ==
  (ret.op = "inverse" /\ f < FLimit) =>
     /\ Invertible(a, f) =>
          /\ ret.status = "ok"
          /\ (combine(ret.value) * a) % f = 1
          /\ ret.mode = "symbolic" => MulRelationHolds
     /\ (a = 0 /\ ret.mode = "constant") =>
          ret.status = "throws" /\ ret.rows = <<>>
     /\ (a = 0 /\ ret.mode = "symbolic") =>
          /\ ret.status = "ok"
          /\ ret.value = <<0, 0, 0>>
          /\ ~MulRelationHolds

C4_Witness ==
  /\ ret.op = "inverse" /\ ret.mode = "symbolic" /\ f = 7 /\ a = 0
  /\ ret.value = <<0, 0, 0>> /\ ~MulRelationHolds

-----------------------------------------------------------------------------
(* C5, C6: division by zero *)

\* C5: with allowZeroOverZero unset, divide by y = 0 fails for every x: in
\* constant mode the call throws and appends no row; in symbolic mode the
\* call returns, and the constraints it emitted are violated: the y != 0
\* guard (which reads y only, so no witness satisfies it), and z*y = x
\* when x != 0.
C5_DivideByZeroFails ==
  (ret.op = "divide" /\ ~ret.allow /\ b = 0) =>
     /\ ret.mode = "constant" => (ret.status = "throws" /\ ret.rows = <<>>)
     /\ (ret.mode = "symbolic" /\ f < FLimit) =>
          /\ ret.status = "ok"
          /\ \E i \in RowsOf("AssertFalse") :
                /\ ret.rows[i] = zeroGuard(Field3from(0), f)[1]
                /\ Violated(ret.rows[i])
          /\ a # 0 => ~MulRelationHolds

C5_Witness ==
  /\ ret.op = "divide" /\ ~ret.allow /\ b = 0 /\ a = 0
  /\ ret.mode = "symbolic" /\ ret.status = "ok" /\ f = 7
  /\ MulRelationHolds /\ ~Satisfied(ret.rows)

\* C6: with allowZeroOverZero set, divide by y = 0 produces a result without
\* failing at construction, in constant mode as well as in symbolic mode.
C6_ZeroOverZeroAllowed ==
  (ret.op = "divide" /\ ret.allow /\ b = 0 /\ f < FLimit) => ret.status = "ok"

-----------------------------------------------------------------------------
(* C7: configuration error *)

IsMulCall == ret.op \in {"multiply", "divide", "inverse"}

\* C7: multiply, divide and inverse fail when f >= 2^259, for constant and
\* symbolic operands alike, and the failing call leaves the log unchanged.
C7_ConfigurationError ==
  [][ (ncalls' # ncalls /\ IsMulCall' /\ f >= FLimit) =>
        /\ ret'.status = "throws"
        /\ ret'.msg = "Foreign modulus fits in 259 bits"
        /\ log' = log ]_vars

C7_Witness ==
  /\ ret.op = "divide" /\ ret.mode = "symbolic" /\ f = FLimit
  /\ ret.status = "throws"

-----------------------------------------------------------------------------
(* C8: assertLessThan *)

\* C8: assertLessThan(x, f) in constant mode accepts every x in [0, f) and
\* rejects x = f at once; in symbolic mode it emits negate(x, f - 1), whose
\* honest witness passes the range check for every x in [0, f) and has a
\* limb outside [0, 2^l) for x = f.  (x = f is a limb-triple for f < 2^(3l).)
C8_AssertLessThan ==
  (ret.op = "assertLessThan" /\ f < 2^l3) =>
     /\ (ret.mode = "constant" /\ a \in 0..(f - 1)) =>
          ret.status = "ok"
     /\ (ret.mode = "constant" /\ a = f) =>
          ret.status = "throws" /\ ret.rows = <<>>
     /\ ret.mode = "symbolic" =>
          /\ ret.status = "ok"
          /\ ret.rows = ForeignFieldNegate(Field3from(a), f - 1, "symbolic").rows
          /\ RowsOf("MultiRangeCheck") # {}
          /\ a \in 0..(f - 1) => Satisfied(ret.rows)
          /\ a = f => \E i \in RowsOf("MultiRangeCheck") : Violated(ret.rows[i])

C8_Witness ==
  /\ ret.op = "assertLessThan" /\ ret.mode = "symbolic" /\ f = 7 /\ a = 7
  /\ ret.rows[Len(ret.rows)].gate = "MultiRangeCheck"
  /\ ret.rows[Len(ret.rows)].cells[3] = toField(-1)

-----------------------------------------------------------------------------
(* C9: Sum is finalize-once *)

IsFinalize(r) == r.op \in {"Sum.finish", "Sum.finishForMulInput"}
IsGuarded(r) == r.op \in {"Sum.add", "Sum.sub", "Sum.finish", "Sum.finishForMulInput",
                          "Sum.fromUnfinished"}

\* C9: reading result fails until the first successful finalize; a
\* successful finalize (zero-operation and constant chains included) sets the
\* result; from then on every add, sub, finish, finishForMulInput and
\* fromUnfinished fails and leaves terms, signs, result (and the log)
\* unchanged, and result keeps returning the value of that one finalize.
C9_FinalizeOnce ==
  [][ /\ (result = Undefined /\ ret'.op = "Sum.result") => ret'.status = "throws"
      /\ (result = Undefined /\ IsFinalize(ret')) =>
            /\ ret'.status = "ok"
            /\ result' # Undefined
            /\ result' = ret'.value
      /\ (result = Undefined /\ ~IsFinalize(ret')) => result' = Undefined
      /\ result # Undefined =>
            /\ result' = result /\ summands' = summands /\ ops' = ops
            /\ IsGuarded(ret') => (ret'.status = "throws" /\ log' = log)
            /\ ret'.op = "Sum.result" => (ret'.status = "ok" /\ ret'.value = result)
    ]_vars

\* add is rejected on a zero-operation chain that was finalized
C9_Witness ==
  /\ result # Undefined /\ ops = <<>>
  /\ ret.op = "Sum.add" /\ ret.status = "throws"

-----------------------------------------------------------------------------
(* C10: limb codec round trip *)

\* C10: for every x in [0, 2^(3l)), each limb of split(x) is in [0, 2^l) and
\* combine(split(x)) = x; for every x in [0, 2^(2l)), combine2(split2(x)) = x.
C10_RoundTrip ==
  /\ (ret.op = "Field3.from" /\ a < 2^l3) =>
        \A i \in 1..3 : ret.value[i] \in 0..(2^l - 1)
  /\ (ret.op = "Field3.toBigint" /\ a < 2^l3) => ret.value = <<a>>
  /\ (ret.op = "combine2" /\ a < 2^l2) => ret.value = <<a>>

C10_Witness ==
  /\ ret.op = "Field3.toBigint" /\ a = 2^l3 - 2 /\ ret.args = <<lMask - 1, lMask, lMask>>
  /\ ret.value = <<a>>

-----------------------------------------------------------------------------
(* C11: the two finalize modes agree *)

\* C11: for every modulus and every chain of range-checked terms,
\* finishForMulInput returns, limb by limb, what finish returns on the same
\* chain (whether chained or not), fails when finish fails, and leaves the
\* Sum with the same terms, signs and result; only the rows appended differ.
C11_FinalizeEquivalent ==
  [][ ret'.op = "Sum.finishForMulInput" =>
        \A isChained \in BOOLEAN :
          LET fin == SumFinish(summands, ops, result, f, isChained)
          IN /\ ret'.status = fin.out.status
             /\ ret'.value = fin.out.value
             /\ result' = fin.result
             /\ summands' = fin.summands
             /\ ops' = fin.ops ]_vars

\* a symbolic chain of two operations finalized for a multiplication: the
\* low-limb rows are in the log, which finish never appends
C11_Witness ==
  /\ ret.op = "Sum.finishForMulInput" /\ ret.mode = "symbolic" /\ ret.status = "ok"
  /\ Len(ops) = 2 /\ result = ret.value
  /\ RowsOf("Generic") # {} /\ RowsOf("ForeignFieldAdd") # {}

-----------------------------------------------------------------------------
(* C12: constant folding *)

PublicOps == {"add", "sub", "negate", "sum", "multiply", "divide", "inverse",
              "assertLessThan", "assertAlmostFieldElements", "assertMul",
              "Sum.finish", "Sum.finishForMulInput"}

\* C12: a call of a public operation whose operands are all constant appends
\* no row and leaves the log as it was, whether it returns or throws; so a
\* call that appends rows has a symbolic operand.
C12_ConstantFolding ==
  [][ (ret'.op \in PublicOps /\ ret'.mode = "constant") =>
        (ret'.rows = <<>> /\ log' = log) ]_vars

\* assertMul on constant operands after a symbolic call filled the log
C12_Witness ==
  /\ ret.op = "assertMul" /\ ret.mode = "constant" /\ ret.status = "ok"
  /\ result # Undefined /\ xySum.result # Undefined
  /\ ret.rows = <<>> /\ log # <<>>

-----------------------------------------------------------------------------
(* C13: the bound of assertMul *)

\* the operands are all under construction, so that fromUnfinished passes
OperandsUnfinished ==
  result = Undefined /\ ySum.result = Undefined /\ xySum.result = Undefined

\* ceil(sqrt(|x_terms| * |y_terms|)) * f < 2^258
MulBoundHolds ==
  LET n == Len(summands) * Len(ySum.summands)
  IN \E k \in 1..n : k * k >= n /\ (k - 1) * (k - 1) < n /\ k * f < MulSumLimit

\* C13: assertMul on operands under construction fails when the bound
\* ceil(sqrt(|x_terms| * |y_terms|)) * f < 2^258 is violated, appends no row
\* and leaves every operand Sum unfinished (terms, signs, no result); when
\* the bound holds the call goes on to finalize the operands.
C13_BoundBeforeRows ==
  [][ (ret'.op = "assertMul" /\ OperandsUnfinished) =>
        /\ ~MulBoundHolds =>
              /\ ret'.status = "throws"
              /\ ret'.msg = "Foreign modulus is too large for multiplication of sums"
              /\ ret'.rows = <<>> /\ log' = log
              /\ summands' = summands /\ ops' = ops /\ result' = Undefined
              /\ ySum' = ySum /\ xySum' = xySum
        /\ MulBoundHolds =>
              /\ ret'.msg # "Foreign modulus is too large for multiplication of sums"
              /\ result' # Undefined ]_vars

\* three symbolic terms times two at the first modulus too large for them
C13_Witness ==
  /\ ret.op = "assertMul" /\ ret.mode = "symbolic" /\ ret.status = "throws"
  /\ Len(summands) = 3 /\ ySum.isSum /\ Len(ySum.summands) = 2
  /\ 2 * f < MulSumLimit /\ 3 * f >= MulSumLimit
  /\ result = Undefined /\ ySum.result = Undefined /\ xySum.result = Undefined

-----------------------------------------------------------------------------
(* C14: errors of fetchAccount *)

\* C14: when the endpoint answers a fetchAccount call with an error (a
\* non-OK response, a failed request, or a null account), the call throws;
\* otherwise it returns the account data.
C14_ErrorsAreThrown ==
  ret.op = "fetchAccount" =>
    IF ret.args[3] = "account"
    THEN ret.status = "ok" /\ ret.value.error = NoError
         /\ ret.value.account.publicKey = <<"PublicKey", ret.args[1]>>
    ELSE ret.status = "throws"

-----------------------------------------------------------------------------
(* C15: rows of sum *)

\* t0 + sum_{j < i} sign_j * t_j over the integers: the running result that
\* row i of a chain starts from
RunningValue(terms, signs, i) == ChainValue(SubSeq(terms, 1, i), SubSeq(signs, 1, i - 1))

\* C15: a symbolic sum (add, sub and negate included) with n signs appends
\* to the log, in this order and with nothing in between: n ffadd rows, row i
\* holding the running result (for terms in [0, f) and f < 2^(3l): the value
\* of the first i terms mod f), term i+1 and sign i; one zero row holding the
\* final result; one range check on it.  Every step of a run leaves the rows
\* already in the log in place and appends the rows of its call after them.
C15_SumRows ==
  [][ /\ log' = log \o ret'.rows
      /\ (IsChainCall' /\ ret'.mode = "symbolic") =>
            LET n == Len(ret'.signs)
                rows == ret'.rows
            IN /\ ret'.status = "ok"
               /\ Len(rows) = n + 2
               /\ \A i \in 1..n :
                     /\ rows[i].gate = "ForeignFieldAdd"
                     /\ SubSeq(rows[i].cells, 4, 6) = Field3from(ret'.args[i + 1])
                     /\ rows[i].cells[12] = ret'.signs[i]
                     /\ (f > 0 /\ f < 2^l3 /\ ArgsInField') =>
                           combine(SubSeq(rows[i].cells, 1, 3))
                             = RunningValue(ret'.args, ret'.signs, i) % f
               /\ rows[n + 1] = GatesZero(ret'.value)
               /\ rows[n + 2] = multiRangeCheck(ret'.value) ]_vars

\* a symbolic sum of three terms called on a log that holds rows already
C15_Witness ==
  /\ ret.op = "sum" /\ ret.mode = "symbolic" /\ Len(ret.signs) = 2
  /\ Len(ret.rows) = 4 /\ Len(log) > 4
  /\ SubSeq(log, Len(log) - 3, Len(log)) = ret.rows
  /\ ret.rows[2].cells[7] # 0

-----------------------------------------------------------------------------
(* C16: chained finalize *)

\* rows 1..n are the addition rows of the chain terms / signs, in term order
AdditionRows(rows, terms, signs) ==
  /\ Len(rows) >= Len(signs)
  /\ \A i \in 1..Len(signs) :
        /\ rows[i].gate = "ForeignFieldAdd"
        /\ SubSeq(rows[i].cells, 4, 6) = terms[i + 1]
        /\ rows[i].cells[12] = signs[i]

\* C16: on a symbolic Sum with n >= 1 operations, finish(f, false) appends
\* n addition rows and then one zero row holding the result; finish(f, true)
\* appends the same n addition rows and nothing else, so that the last row
\* of the log is the last addition row; both return the same result, and
\* neither appends a range check.  Every finish step is one of the two.
C16_ChainedFinish ==
  [][ (ret'.op = "Sum.finish" /\ result = Undefined /\ Len(ops) >= 1
         /\ ~SumIsConstant(summands)) =>
        LET n == Len(ops)
            closed == SumFinish(summands, ops, result, f, FALSE).out
            chained == SumFinish(summands, ops, result, f, TRUE).out
        IN /\ closed.status = "ok" /\ chained.status = "ok"
           /\ closed.value = chained.value
           /\ Len(chained.rows) = n /\ Len(closed.rows) = n + 1
           /\ AdditionRows(chained.rows, SumTerms(summands), ops)
           /\ closed.rows = chained.rows \o <<GatesZero(closed.value)>>
           /\ ret'.value = closed.value
           /\ ret'.rows \in {closed.rows, chained.rows}
           /\ log' = log \o ret'.rows
           /\ \A i \in 1..Len(ret'.rows) : ret'.rows[i].gate # "MultiRangeCheck" ]_vars

\* a chained finish of two operations: the log ends with the second
\* addition row
C16_Witness ==
  /\ ret.op = "Sum.finish" /\ ret.mode = "symbolic" /\ ret.status = "ok"
  /\ Len(ops) = 2 /\ Len(ret.rows) = 2 /\ result = ret.value
  /\ log[Len(log)].gate = "ForeignFieldAdd"
  /\ log[Len(log)] = ret.rows[2]

-----------------------------------------------------------------------------
(* C17: grouping of the weak bounds *)

\* the weak bound of the i-th value of the last call, as a field element
BoundOf(i) == (split(ret.args[i])[3] + 2^l - 1 - (f \div 2^l2)) % P

\* C17: symbolic assertAlmostFieldElements on n values appends
\* n + ceil(n/3) range checks and nothing else: value i is range-checked once,
\* in input order, a range check on the bounds of values 3k-2, 3k-1, 3k
\* follows the range check of value 3k, and a trailing group of one or two
\* bounds is padded with zeros in a last range check; no row when n = 0.
C17_BoundsInGroupsOfThree ==
  (ret.op = "assertAlmostFieldElements" /\ ret.mode = "symbolic") =>
    LET n == Len(ret.args)
        rows == ret.rows
    IN /\ ret.status = "ok"
       /\ Len(rows) = n + (n + 2) \div 3
       /\ \A i \in 1..Len(rows) : rows[i].gate = "MultiRangeCheck"
       /\ \A i \in 1..n : rows[i + (i - 1) \div 3].cells = split(ret.args[i])
       /\ \A k \in 1..(n \div 3) :
             rows[4 * k].cells = <<BoundOf(3 * k - 2), BoundOf(3 * k - 1), BoundOf(3 * k)>>
       /\ n % 3 = 1 => rows[Len(rows)].cells = <<BoundOf(n), 0, 0>>
       /\ n % 3 = 2 => rows[Len(rows)].cells = <<BoundOf(n - 1), BoundOf(n), 0>>

\* four values: one full group of bounds and a trailing group of one
C17_Witness ==
  /\ ret.op = "assertAlmostFieldElements" /\ ret.mode = "symbolic"
  /\ Len(ret.args) = 4 /\ Len(ret.rows) = 6
  /\ f = FLimit - 3 /\ a = f - 1 /\ b = 2^l3 - 1
  /\ ret.rows[4].cells = <<lMask, 2 * lMask - 3, lMask>>
  /\ ret.rows[6].cells = <<2 * lMask - 3, 0, 0>>

-----------------------------------------------------------------------------
(* C18: soundness of the zero-divisor guard *)

\* C18: for f < 2^259 and a range-checked divisor y with y[2] <= f >> 2l,
\* if y = 0 (mod f) then the guard of a symbolic divide without
\* allowZeroOverZero rejects y: one of its two rows is violated, so no
\* satisfying witness has a divisor congruent to 0.
C18_ZeroGuardSound ==
  (/\ ret.op = "divide" /\ ret.mode = "symbolic" /\ ~ret.allow
   /\ f < FLimit
   /\ \A i \in 1..3 : split(b)[i] \in 0..lMask
   /\ split(b)[3] <= f \div 2^l2
   /\ b % f = 0)
  => /\ \E i \in RowsOf("AssertFalse") : Violated(ret.rows[i])
     /\ ~Satisfied(ret.rows)

-----------------------------------------------------------------------------
(* C19: low-limb tracking of finishForMulInput *)

\* every summand of the Sum is a value in [0, f)
TermsInField == \A i \in 1..Len(summands) : combine(summands[i].limbs) \in 0..(f - 1)

\* the carry constraints and the wiring of low limb and overflow to the
\* ffadd chain hold of the honest witness
LowLimbAgrees ==
  \A i \in RowsOf("AssertOneOf") \cup RowsOf("AssertEquals") : ~Violated(ret.rows[i])

IsSymbolicMulInput ==
  ret.op = "Sum.finishForMulInput" /\ ret.mode = "symbolic" /\ ret.status = "ok"

\* C19 (as stated): for every f and every chain of terms with limbs in
\* [0, 2^l), each witnessed carry of finishForMulInput is in {-1, 0, 1}, and
\* the tracked low limb and overflow of each step equal the low limb and the
\* overflow of the step's singleAdd.
C19_LowLimbAgreesEveryChain == IsSymbolicMulInput => LowLimbAgrees

\* C19 (amended): the same for 0 < f < 2^(3l) and chains of terms in [0, f).
C19_LowLimbAgrees ==
  (IsSymbolicMulInput /\ f > 0 /\ f < 2^l3 /\ TermsInField) => LowLimbAgrees

\* a chain a + b - b on terms in the field whose first step overflows and
\* whose second step underflows, each with a carry out of the low limb
C19_Witness ==
  /\ IsSymbolicMulInput /\ f < 2^l3 /\ TermsInField /\ ops = <<1, -1>>
  /\ \E i, j \in RowsOf("Generic") :
        /\ ret.rows[i].cells[5] = 1 /\ ret.rows[j].cells[5] = toField(-1)
        /\ ret.rows[i].cells[7] # 0 /\ ret.rows[j].cells[7] # 0
  /\ RowsOf("AssertEquals") # {}

-----------------------------------------------------------------------------
(* C20: the carries of the multiplication *)

\* the product terms and carries that the ffmul row of the last call fixes:
\* p0 and p2 from the operands, the quotient and 2^(3l) - f, p10 and p11, the
\* remainder, c0, and c1 recombined from its eleven slices (seven of 12
\* bits from bit 0 on, then three of 2 bits and one of 1 bit from bit 84 on)
MulCarries ==
  LET c == MulRow.cells
  IN [lo |-> c[1] * c[4] + c[9] * c[29] + c[13] * 2^l - c[7],
      hi |-> c[1] * c[6] + c[2] * c[5] + c[3] * c[4]
               + c[9] * c[31] + c[10] * c[30] + c[11] * c[29]
               - c[8] + (c[14] + c[15] * 2^l) + c[16],
      c0 |-> c[16],
      c1low |-> c[17] + c[18] * 2^12,
      c1high |-> SubSeq(c, 19, 27)]

\* C20: for f < 2^259 and a, b in [0, f), in the witness of the ffmul row
\* p0 + p10*2^l - r01 is c0 * 2^(2l) exactly and p2 - r2 + p11 + c0 is
\* c1 * 2^l exactly, where c1 >= 0 is the recombination of its slices and
\* fits in l + 3 bits (91 bits at l = 88; at the model's limb width all of it
\* lies in the first slice and the slices above bit 24 are 0).
C20_CarriesExact ==
  (ret.op = "multiply" /\ ret.mode = "symbolic" /\ f < FLimit /\ ArgsInField) =>
    LET m == MulCarries
    IN /\ m.lo % 2^l2 = 0
       /\ m.lo = m.c0 * 2^l2
       /\ m.hi % 2^l = 0
       /\ m.hi >= 0
       /\ \A i \in 1..Len(m.c1high) : m.c1high[i] = 0
       /\ m.hi = m.c1low * 2^l
       /\ m.c1low < 2^(l + 3)

\* a product whose two carries are both non-zero
C20_Witness ==
  /\ ret.op = "multiply" /\ ret.mode = "symbolic" /\ f < FLimit /\ ArgsInField
  /\ MulCarries.c0 > 0 /\ MulCarries.c1low >= 2^l /\ MulRow.cells[8] > 0

-----------------------------------------------------------------------------
(* C21: the accounts fetchMissingAccounts fetches *)

\* the marked account has no cache entry, or one older than cacheExpiry
NotCachedOrExpired(account) ==
  LET cachedAccount == accountCache[CacheKey(account.publicKey, account.graphqlEndpoint)]
  IN cachedAccount = NoEntry \/ now - cachedAccount.timestamp > cacheExpiry

\* the step is a call fetchMissingAccounts(e)
IsFetchMissingCall == ncalls' # ncalls /\ ret'.op = "fetchMissingAccounts"

\* the accounts whose requests the last call started
Fetches(call) == {call.value[i] : i \in 1..Len(call.value)}

\* the last step was a response with an account
FetchSucceeded(call) == call.op = "fetchMissingAccounts: response" /\ call.value # Undefined

\* a call fetches exactly the accounts marked for its endpoint that are not
\* cached or expired
FetchesNotCachedOrExpired ==
  IsFetchMissingCall =>
    Fetches(ret') = {account \in accountsToFetch :
                       account.graphqlEndpoint = ret'.args[1] /\ NotCachedOrExpired(account)}

\* a call fetches no account marked for another endpoint, starts one request
\* per account it fetches and no other
OtherEndpointsUntouched ==
  IsFetchMissingCall =>
    /\ \A account \in Fetches(ret') : account.graphqlEndpoint = ret'.args[1]
    /\ fetching' = fetching \o ret'.value
    /\ Cardinality(Fetches(ret')) = Len(ret'.value)
    /\ Fetches(ret') \subseteq accountsToFetch

\* a mark goes away only in the step in which the fetch of that account
\* succeeded; a failed fetch removes none
MarkRemovedOnSuccess ==
  /\ \A account \in accountsToFetch \ accountsToFetch' :
       /\ FetchSucceeded(ret')
       /\ ret'.args[1] = account.publicKey /\ ret'.args[2] = account.graphqlEndpoint
  /\ (Len(fetching') < Len(fetching) /\ ~FetchSucceeded(ret'))
       => accountsToFetch' = accountsToFetch

\* C21: fetchMissingAccounts(e) fetches an account marked for e exactly when
\* it has no cache entry or its entry is older than cacheExpiry; accounts
\* marked for other endpoints are left alone; a mark is removed only after
\* its fetch succeeded, in whatever order the fetches complete.
C21_FetchesMissingAccounts ==
  [][FetchesNotCachedOrExpired /\ OtherEndpointsUntouched /\ MarkRemovedOnSuccess]_vars

\* the part of C21 about endpoints and marks, without the selection by age
C21_EndpointsAndMarks == [][OtherEndpointsUntouched /\ MarkRemovedOnSuccess]_vars

\* a call on a marked account whose cache entry is fresh, which is fetched
C21_FreshRefetched ==
  /\ ret.op = "fetchMissingAccounts"
  /\ \E account \in Fetches(ret) :
       /\ accountCache[CacheKey(account.publicKey, account.graphqlEndpoint)] # NoEntry
       /\ ~NotCachedOrExpired(account)

\* a call on a marked account whose cache entry is expired, which is not
\* fetched
C21_ExpiredNotFetched ==
  /\ ret.op = "fetchMissingAccounts"
  /\ \E account \in accountsToFetch \ Fetches(ret) :
       /\ account.graphqlEndpoint = ret.args[1]
       /\ accountCache[CacheKey(account.publicKey, account.graphqlEndpoint)] # NoEntry
       /\ NotCachedOrExpired(account)

\* two fetches of one call in flight, completing in the order opposite to
\* the one they were started in, the later one having succeeded
C21_OutOfOrder ==
  /\ FetchSucceeded(ret)
  /\ Len(fetching) = 1
  /\ fetching[1] \in accountsToFetch
  /\ fetching[1].graphqlEndpoint = ret.args[2] /\ fetching[1].publicKey # ret.args[1]

====
